---- MODULE Spec2Model ----
(***************************************************************************)
(* State-machine model of lib/containers.js (avsc): the four streams       *)
(* RawEncoder, RawDecoder, BlockEncoder and BlockDecoder.                  *)
(*                                                                         *)
(* Every stream object is one variable holding a record of the object's    *)
(* fields (named as in the source, without the leading underscore) plus    *)
(* the part of the stream base class's state that the handlers interact    *)
(* with:                                                                   *)
(*   out, eos      what push() has delivered downstream so far             *)
(*   reading       Readable's "reading" flag: set when the base class      *)
(*                 calls _read, cleared by push(); _read is not called     *)
(*                 again by the base class while it is set                 *)
(*   pendingCb     number of write callbacks handed to _write and not yet  *)
(*                 invoked; the base class calls _write only when it is 0  *)
(* A handler runs to completion (single-threaded event loop), so every     *)
(* handler, including the handlers it calls synchronously, is one action.  *)
(* Bytes are small naturals; buffers are sequences of bytes.               *)
(***************************************************************************)
EXTENDS Integers, Sequences, FiniteSets, TLC

VARIABLES rawIn, rawEnc, rawDec, file, blockIn, blockEnc, blockDec

vars == <<rawIn, rawEnc, rawDec, file, blockIn, blockEnc, blockDec>>

rawVars == <<rawIn, rawEnc, rawDec>>

blockVars == <<file, blockIn, blockEnc, blockDec>>

(***************************************************************************)
(* Bounds of the model.                                                    *)
(***************************************************************************)
\* number of values written to an encoder
MaxRecs == 3
\* values are 1..MaxVal; value v is serialized on v bytes
MaxVal == 2
\* largest batchSize / blockSize option
MaxBatch == 2
\* number of blocks of a container file given to the BlockDecoder
MaxBlocks == 2
\* number of values written to an encoder that its type rejects, and of
\* compressions or decompressions that fail
MaxBad == 1

Values == 1..MaxVal

(***************************************************************************)
(* Generic helpers.                                                        *)
(***************************************************************************)
RECURSIVE Flatten(_)
Flatten(ss) == IF ss = <<>> THEN <<>> ELSE Head(ss) \o Flatten(Tail(ss))

IsPrefix(s, t) == Len(s) <= Len(t) /\ SubSeq(t, 1, Len(s)) = s

Min(a, b) == IF a <= b THEN a ELSE b

\* buf.slice(from, to) with 0-based, end-exclusive offsets, clamped to the
\* buffer as Buffer.prototype.slice does.
Slice(buf, from, to) ==
  LET f == Min(from, Len(buf))
      t == Min(to, Len(buf))
  IN IF f >= t THEN <<>> ELSE [i \in 1..(t - f) |-> buf[f + i]]

\* new Buffer(n)
NewBuffer(n) == [i \in 1..n |-> 0]

(***************************************************************************)
(* Tap: cursor over a buffer.  A read or write past the end only moves     *)
(* pos past the end; isValid() reports it.                                 *)
(***************************************************************************)
Tap(buf) == [buf |-> buf, pos |-> 0]

isValid(tap) == tap.pos <= Len(tap.buf)

\* Write bytes at the cursor: the bytes that fit are stored, pos advances by
\* the full length.
TapWriteBytes(tap, bytes) ==
  [buf |-> [i \in 1..Len(tap.buf) |->
              IF i > tap.pos /\ i <= tap.pos + Len(bytes)
                THEN bytes[i - tap.pos] ELSE tap.buf[i]],
   pos |-> tap.pos + Len(bytes)]

(***************************************************************************)
(* ValueCodec of the stream's type: value v is written as v - 1            *)
(* continuation bytes followed by the terminal byte v (a variable-length   *)
(* prefix-free code, as the Avro varint is).                               *)
(***************************************************************************)
ContByte == 128

TypeEncode(v) == [i \in 1..v |-> IF i < v THEN ContByte ELSE v]

\* type._write(tap, val)
TypeWrite(tap, v) == TapWriteBytes(tap, TypeEncode(v))

\* A value that is not valid for the type: type._write(tap, val) throws
\* for it, before it writes any byte.
BadValue == 0

TypeRejects(v) == v = BadValue

\* Offset just after the value that starts at offset pos, or an offset past
\* the end of buf when the value is incomplete.
RECURSIVE ScanValue(_, _)
ScanValue(buf, pos) ==
  IF pos >= Len(buf) THEN Len(buf) + 1
  ELSE IF buf[pos + 1] = ContByte THEN ScanValue(buf, pos + 1)
  ELSE pos + 1

\* type._read(tap): the decoded value is the terminal byte (0 stands for the
\* meaningless result of a read past the end).
TypeRead(tap) ==
  LET p == ScanValue(tap.buf, tap.pos)
  IN [tap |-> [tap EXCEPT !.pos = p],
      val |-> IF p <= Len(tap.buf) THEN tap.buf[p] ELSE 0]

\* type._skip(tap)
TypeSkip(tap) == [tap EXCEPT !.pos = ScanValue(tap.buf, tap.pos)]

\* createReader(decode, type) applied to a tap: the value, or with
\* decode = false the bytes of the value.
createReader(decode, tap) ==
  IF decode THEN TypeRead(tap)
  ELSE LET t == TypeSkip(tap)
       IN [tap |-> t, val |-> Slice(tap.buf, tap.pos, t.pos)]

\* What a decoder with option decode emits for the value v.
Emitted(decode, v) == IF decode THEN v ELSE TypeEncode(v)

\* The serializations of the values vs, concatenated.
RECURSIVE EncodeAll(_)
EncodeAll(vs) == IF vs = <<>> THEN <<>> ELSE TypeEncode(Head(vs)) \o EncodeAll(Tail(vs))

\* What a decoder with option decode emits for the values vs.
EmittedAll(decode, vs) == [i \in 1..Len(vs) |-> Emitted(decode, vs[i])]

\* copyBuffer(buf, pos, len)
copyBuffer(buf, pos, len) == Slice(buf, pos, pos + len)

(***************************************************************************)
(* Readable base class: push(chunk) and push(null).                        *)
(***************************************************************************)
Push(s, chunk) ==
  [s EXCEPT !.out = Append(@, chunk), !.reading = FALSE,
            !.pushAfterEnd = @ \/ s.eos > 0]

PushNull(s) == [s EXCEPT !.eos = @ + 1, !.reading = FALSE]

(***************************************************************************)
(* RawEncoder                                                              *)
(***************************************************************************)
RawEncoderInit(batchSize) ==
  [tap |-> Tap(NewBuffer(batchSize)), batchSize |-> batchSize,
   out |-> <<>>, eos |-> 0, reading |-> FALSE, pushAfterEnd |-> FALSE,
   flushed |-> FALSE, errors |-> <<>>]

\* this._writeValue(tap, val) of the RawEncoder, on its own tap: the
\* exception of type._write is caught and emitted as an 'error'.
RawWriteValue(e, val) ==
  IF TypeRejects(val) THEN [e EXCEPT !.errors = Append(@, "invalid value")]
  ELSE [e EXCEPT !.tap = TypeWrite(@, val)]

\* Capacity of the scratch buffer after a write of len bytes overflowed a
\* buffer of capacity cap.
RawResizeNone(len, cap) == cap

RawResize(len, cap) == IF len > cap THEN 2 * len ELSE cap

\* RawEncoder.prototype._transform
RawEncoderTransform(e, val) ==
  LET tap == e.tap
      buf == tap.buf
      pos == tap.pos
      e0  == RawWriteValue(e, val)
      t1  == e0.tap
  IN IF ~isValid(t1)
       THEN LET e1  == IF pos # 0 THEN Push(e0, copyBuffer(t1.buf, 0, pos)) ELSE e0
                len == t1.pos - pos
                cap == RawResize(len, Len(buf))
                b2  == IF cap # Len(buf) THEN NewBuffer(cap) ELSE t1.buf
            IN RawWriteValue([e1 EXCEPT !.tap = [buf |-> b2, pos |-> 0]], val)
       ELSE e0

\* RawEncoder.prototype._flush
RawEncoderFlush(e) ==
  LET tap == e.tap
      pos == tap.pos
      e1  == IF pos # 0 THEN Push(e, Slice(tap.buf, 0, pos)) ELSE e
  IN PushNull([e1 EXCEPT !.flushed = TRUE])

\* A value is written to the RawEncoder.
ReTransform(val) ==
  /\ ~rawEnc.flushed
  /\ Len(rawIn) < MaxRecs
  /\ rawEnc' = RawEncoderTransform(rawEnc, val)
  /\ rawIn' = IF TypeRejects(val) THEN rawIn ELSE Append(rawIn, val)
  /\ UNCHANGED <<rawDec, blockVars>>

\* The producer ends the RawEncoder.
ReFlush ==
  /\ ~rawEnc.flushed
  /\ rawEnc' = RawEncoderFlush(rawEnc)
  /\ UNCHANGED <<rawIn, rawDec, blockVars>>

(***************************************************************************)
(* RawDecoder                                                              *)
(***************************************************************************)
RawDecoderInit(decode) ==
  [tap |-> Tap(<<>>), writeCb |-> FALSE, needPush |-> FALSE,
   finished |-> FALSE, decode |-> decode,
   out |-> <<>>, eos |-> 0, reading |-> FALSE, pushAfterEnd |-> FALSE,
   pendingCb |-> 0, offset |-> 0, cbTrace |-> {}]

\* The tap holds a complete value at its cursor.
HasCompleteValue(tap) == ScanValue(tap.buf, tap.pos) <= Len(tap.buf)

\* this._writeCb(): the base class counts the callback; cbTrace records from
\* where and in which state of the decoder callbacks were invoked.
RawInvokeWriteCb(d, site) ==
  [d EXCEPT !.pendingCb = @ - 1,
            !.cbTrace = @ \cup {[site |-> site, finished |-> d.finished,
                                 needPush |-> d.needPush,
                                 complete |-> HasCompleteValue(d.tap),
                                 partial |-> d.tap.pos < Len(d.tap.buf)]}]

\* RawDecoder.prototype._read
RawDecoderRead(d) ==
  LET d0  == [d EXCEPT !.needPush = FALSE]
      pos == d0.tap.pos
      r   == createReader(d0.decode, d0.tap)
  IN IF isValid(r.tap)
       THEN Push([d0 EXCEPT !.tap = r.tap], r.val)
     ELSE IF ~d0.finished
       THEN LET d1 == [d0 EXCEPT !.tap = [r.tap EXCEPT !.pos = pos],
                                 !.needPush = TRUE]
            IN IF d1.writeCb THEN RawInvokeWriteCb(d1, "read") ELSE d1
     ELSE PushNull([d0 EXCEPT !.tap = r.tap])

\* How _write treats the callback it is given, besides storing it.
RawWriteCbEager(d) == RawInvokeWriteCb(d, "write")

RawWriteCb(d) == d

\* The tap after a chunk arrived: the unread bytes followed by the chunk.
RawConcatNoSlice(tap, chunk) == Tap(tap.buf \o chunk)

RawConcat(tap, chunk) == Tap(Slice(tap.buf, tap.pos, Len(tap.buf)) \o chunk)

\* RawDecoder.prototype._write
RawDecoderWrite(d, chunk) ==
  LET d0 == RawWriteCb([d EXCEPT !.writeCb = TRUE,
                                 !.tap = RawConcat(d.tap, chunk)])
  IN IF d0.needPush
       THEN RawDecoderRead([d0 EXCEPT !.needPush = FALSE])
       ELSE d0

\* The bytes the RawEncoder has pushed so far.
RawWire == Flatten(rawEnc.out)

\* The base class may call _write: the previous write callback was invoked
\* and the stream was not ended.
RdCanWrite(n) ==
  /\ rawDec.pendingCb = 0
  /\ ~rawDec.finished
  /\ rawDec.offset + n <= Len(RawWire)

\* The base class may call _read: no _read awaits its push, and
\* end-of-stream was not pushed.
RdCanRead == ~rawDec.reading /\ rawDec.eos = 0

\* 'finish' may be emitted: all input was written and every write callback
\* invoked.
RdCanFinish ==
  /\ ~rawDec.finished
  /\ rawDec.pendingCb = 0
  /\ rawEnc.flushed
  /\ rawDec.offset = Len(RawWire)

\* The base class hands the next n bytes to _write.
RdWrite(n) ==
  /\ RdCanWrite(n)
  /\ rawDec' = RawDecoderWrite(
                 [rawDec EXCEPT !.pendingCb = @ + 1, !.offset = @ + n],
                 Slice(RawWire, rawDec.offset, rawDec.offset + n))
  /\ UNCHANGED <<rawIn, rawEnc, blockVars>>

\* The base class calls _read for the consumer.
RdRead ==
  /\ RdCanRead
  /\ rawDec' = RawDecoderRead([rawDec EXCEPT !.reading = TRUE])
  /\ UNCHANGED <<rawIn, rawEnc, blockVars>>

\* 'finish' handler of the RawDecoder.
RdFinish ==
  /\ RdCanFinish
  /\ rawDec' = RawDecoderRead([rawDec EXCEPT !.finished = TRUE])
  /\ UNCHANGED <<rawIn, rawEnc, blockVars>>

(***************************************************************************)
(* Object container file format.  Each field of HEADER_TYPE and BLOCK_TYPE *)
(* takes one byte, except a block's data: one length byte and the bytes.   *)
(***************************************************************************)
\* Number of bytes of a serialized header: magic, avro.codec, avro.schema, sync.
HeaderLen == 4

\* The magic byte of a container file.
MAGIC_BYTES == 79

\* Value of a field that is null or undefined.
Null == -1

\* Names of the registered codecs as written in avro.codec, and a name that
\* is not registered.
NullCodec == 0
DeflateCodec == 1
SnappyCodec == 2

\* getDefaultCodecs()
getDefaultCodecs == {NullCodec, DeflateCodec}

\* avro.schema texts: one that parses, one on which JSON.parse throws.
GoodSchema == 1
BadSchema == 0

\* Sync markers: the one of the file's header, and another one.
SyncA == 7
SyncB == 8

\* First byte of the output of the 'deflate' compressor.
ZMark == 200

\* The compressors of BlockEncoder.getDefaultCodecs().
Compress(codec, buf) == IF codec = DeflateCodec THEN <<ZMark>> \o buf ELSE buf

\* The decompressors of BlockDecoder.getDefaultCodecs(): what is passed to
\* the callback, (err) or (null, data).
Decompress(codec, buf) ==
  IF codec = DeflateCodec
    THEN IF buf # <<>> /\ buf[1] = ZMark
           THEN [err |-> FALSE, data |-> Tail(buf)]
           ELSE [err |-> TRUE, data |-> <<>>]
    ELSE [err |-> FALSE, data |-> buf]

\* A compressor given by the user in opts.codecs: it yields an error for an
\* input that starts with a continuation byte and passes any other input
\* unchanged.
FailCodec == 3

CodecFails(codec, buf) == codec = FailCodec /\ buf # <<>> /\ buf[1] = ContByte

\* this._compress(buf, cb): what is passed to cb, (err) or (null, data).
CompressCall(codec, buf) ==
  IF CodecFails(codec, buf) THEN [err |-> TRUE, data |-> <<>>]
  ELSE [err |-> FALSE, data |-> Compress(codec, buf)]

\* header.$toBuffer()
HeaderBytes(magic, codec, schema, sync) == <<magic, codec, schema, sync>>

\* HEADER_TYPE._read(tap)
HeaderRead(tap) ==
  LET b == tap.buf
      p == tap.pos
  IN IF p + HeaderLen > Len(b)
       THEN [tap |-> [tap EXCEPT !.pos = Len(b) + 1],
             header |-> [magic |-> 0, codec |-> 0, schema |-> 0, sync |-> 0]]
       ELSE [tap |-> [tap EXCEPT !.pos = p + HeaderLen],
             header |-> [magic |-> b[p + 1], codec |-> b[p + 2],
                         schema |-> b[p + 3], sync |-> b[p + 4]]]

\* The bytes of a block: count, data (length-prefixed), sync.
BlockBytes(count, data, sync) == <<count, Len(data)>> \o data \o <<sync>>

\* BLOCK_TYPE._read(tap)
BlockRead(tap) ==
  LET b == tap.buf
      p == tap.pos
      n == IF p + 2 <= Len(b) THEN b[p + 2] ELSE 0
  IN IF p + 2 > Len(b) \/ p + 3 + n > Len(b)
       THEN [tap |-> [tap EXCEPT !.pos = Len(b) + 1],
             block |-> [count |-> 0, data |-> <<>>, sync |-> 0]]
       ELSE [tap |-> [tap EXCEPT !.pos = p + 3 + n],
             block |-> [count |-> b[p + 1], data |-> Slice(b, p + 2, p + 2 + n),
                        sync |-> b[p + 3 + n]]]

\* tryReadBlock(tap)
tryReadBlock(tap) ==
  LET pos == tap.pos
      r   == BlockRead(tap)
  IN IF ~isValid(r.tap)
       THEN [ok |-> FALSE, tap |-> [r.tap EXCEPT !.pos = pos], block |-> r.block]
       ELSE [ok |-> TRUE, tap |-> r.tap, block |-> r.block]

\* new BlockData(index, buf, cb, count)
BlockData(index, buf, cb, count) ==
  [index |-> index, buf |-> buf, cb |-> cb, count |-> count]

(***************************************************************************)
(* OrderedQueue: items ordered on index (the order in which a heap on      *)
(* index hands them out); pop gives the head unless its index is greater   *)
(* than the queue's counter.  Indices are compared as JavaScript compares  *)
(* numbers: every comparison with NaN is false.                            *)
(***************************************************************************)
\* The number NaN.
NaN == -2

JsLt(a, b) == a # NaN /\ b # NaN /\ a < b

JsGt(a, b) == a # NaN /\ b # NaN /\ a > b

OrderedQueue == [items |-> <<>>, index |-> 0]

\* Number of leading items of items that item does not go before.
RECURSIVE QueueRank(_, _)
QueueRank(items, item) ==
  IF items = <<>> \/ JsLt(item.index, Head(items).index) THEN 0
  ELSE 1 + QueueRank(Tail(items), item)

\* OrderedQueue.prototype.push
QueuePush(q, item) ==
  LET k == QueueRank(q.items, item)
  IN [q EXCEPT !.items = SubSeq(@, 1, k) \o <<item>> \o SubSeq(@, k + 1, Len(@))]

\* OrderedQueue.prototype.pop
QueuePop(q) ==
  IF q.items = <<>> \/ JsGt(Head(q.items).index, q.index)
    THEN [ok |-> FALSE, queue |-> q, item |-> BlockData(0, <<>>, 0, 0)]
    ELSE [ok |-> TRUE,
          queue |-> [items |-> Tail(q.items), index |-> q.index + 1],
          item |-> Head(q.items)]

\* this.emit('error', err)
EmitError(s, err) == [s EXCEPT !.errors = Append(@, err)]

(***************************************************************************)
(* BlockEncoder                                                            *)
(*   optsBlockSize  opts.blockSize, as given to the constructor            *)
(*   codecs     opts.codecs, the empty set when it is not given            *)
(*   write      which function this._write currently is                    *)
(*   inflight   compressions whose callback has not run yet, oldest first  *)
(*   tick       number of scheduled process.nextTick(push(null))           *)
(*   out        the segments pushed, each with the place that pushed it    *)
(*   piped      the output is the input of the BlockDecoder                *)
(***************************************************************************)
BlockEncoderInit(blockSize, codec, omitHeader, syncMarker, piped) ==
  [optsBlockSize |-> blockSize,
   blockSize |-> blockSize, tap |-> Tap(NewBuffer(blockSize)),
   codecs |-> {}, codec |-> codec, compress |-> Null, omitHeader |-> omitHeader,
   blockCount |-> 0, syncMarker |-> syncMarker, queue |-> OrderedQueue,
   pending |-> 0, finished |-> FALSE, needPush |-> FALSE, index |-> Null,
   write |-> "_write", inflight |-> <<>>, tick |-> 0, errors |-> <<>>,
   piped |-> piped,
   out |-> <<>>, eos |-> 0, reading |-> FALSE, pushAfterEnd |-> FALSE,
   pendingCb |-> 0]

\* x++ : the value of the expression and the new value of x.  The field is
\* undefined (never assigned) at first, and undefined++ is NaN.
JsPostIncrement(x) ==
  [value |-> IF x = Null THEN NaN ELSE x,
   next  |-> IF x = Null \/ x = NaN THEN NaN ELSE x + 1]

\* this.push(buf) of a segment of the output.
PushSegment(e, kind, bytes) == Push(e, [kind |-> kind, bytes |-> bytes])

\* cb(), where hasCb tells that cb is a write callback (not undefined).
BeInvokeCb(e, hasCb) ==
  IF hasCb THEN [e EXCEPT !.pendingCb = @ - 1]
  ELSE EmitError(e, "TypeError")

\* this._finished && !this._pending in _read
BeEndReachedFinished(e) == e.finished

BeEndReached(e) == e.finished /\ e.pending = 0

\* BlockEncoder.prototype._read
BlockEncoderRead(e) ==
  LET r == QueuePop(e.queue)
  IN IF ~r.ok
       THEN IF BeEndReached(e)
              THEN [e EXCEPT !.tick = @ + 1]
              ELSE [e EXCEPT !.needPush = TRUE]
       ELSE LET data == r.item
                e1 == PushSegment([e EXCEPT !.queue = r.queue], "count", <<data.count>>)
                e2 == PushSegment(e1, "length", <<Len(data.buf)>>)
                e3 == PushSegment(e2, "data", data.buf)
                e4 == PushSegment(e3, "sync", <<e.syncMarker>>)
            IN IF ~e4.finished THEN BeInvokeCb(e4, data.cb) ELSE e4

\* if (err) in the function returned by _createBlockCallback
BeFailedNever(res) == FALSE

BeFailed(res) == res.err

\* var count = this._blockCount in _createBlockCallback: the value the
\* returned function uses is the one at the time of the flush.
BeCallbackCountLate(e, count) == e.blockCount

BeCallbackCount(e, count) == count

\* The function returned by BlockEncoder.prototype._createBlockCallback(cb),
\* called with res = (err, data).
BeBlockCallback(e, index, count, cb, res) ==
  IF BeFailed(res) THEN EmitError(e, "codec")
  ELSE LET e1 == [e EXCEPT !.pending = @ - 1,
                           !.queue = QueuePush(@, BlockData(index, res.data, cb,
                                                  BeCallbackCount(e, count)))]
       IN IF e1.needPush
            THEN BlockEncoderRead([e1 EXCEPT !.needPush = FALSE])
            ELSE e1

\* pos = pos || tap.pos in _flushChunk
BeFlushPosTap(pos, tapPos) == tapPos

BeFlushPos(pos, tapPos) == IF pos # 0 THEN pos ELSE tapPos

\* this._blockCount = 0 in _flushChunk
BeResetCountNone(e) == e

BeResetCount(e) == [e EXCEPT !.blockCount = 0]

\* BlockEncoder.prototype._flushChunk(pos, cb); pos is 0 and hasCb false
\* when it is called without arguments.  The compressor completes before it
\* returns unless async.
BlockEncoderFlushChunk(e, pos, hasCb, async) ==
  LET tap   == e.tap
      input == Slice(tap.buf, 0, BeFlushPos(pos, tap.pos))
      t     == JsPostIncrement(e.index)
      count == e.blockCount
      e1    == [e EXCEPT !.index = t.next, !.pending = @ + 1]
      e2    == IF async
                 THEN [e1 EXCEPT !.inflight = Append(@,
                         [index |-> t.value, count |-> count, cb |-> hasCb,
                          data |-> input])]
                 ELSE BeBlockCallback(e1, t.value, count, hasCb,
                        CompressCall(e1.compress, input))
  IN BeResetCount(e2)

\* this._writeValue(tap, val) of the BlockEncoder, on its own tap: the
\* exception of type._write is caught and emitted as an 'error'.
BeWriteValue(e, val) ==
  IF TypeRejects(val) THEN EmitError(e, "invalid value")
  ELSE [e EXCEPT !.tap = TypeWrite(@, val)]

\* if (!flushing) at the end of _writeChunk: cb is called now.
BeCbNowAlways(flushing) == TRUE

BeCbNow(flushing) == ~flushing

\* BlockEncoder.prototype._writeChunk
BlockEncoderWriteChunk(e, val, async) ==
  LET pos == e.tap.pos
      e0  == BeWriteValue(e, val)
  IN IF ~isValid(e0.tap)
       THEN LET flushing == pos # 0
                e1  == IF flushing
                         THEN BlockEncoderFlushChunk(e0, pos, TRUE, async) ELSE e0
                len == e1.tap.pos - pos
                bs  == IF len > e1.blockSize THEN len * 2 ELSE e1.blockSize
                e2  == [BeWriteValue([e1 EXCEPT !.blockSize = bs,
                                                !.tap = Tap(NewBuffer(bs))], val)
                          EXCEPT !.blockCount = @ + 1]
            IN IF BeCbNow(flushing) THEN BeInvokeCb(e2, TRUE) ELSE e2
       ELSE LET e1 == [e0 EXCEPT !.blockCount = @ + 1]
            IN IF BeCbNow(FALSE) THEN BeInvokeCb(e1, TRUE) ELSE e1

\* this._write = this._writeChunk
BeSwitchNot(e) == e

BeSwitch(e) == [e EXCEPT !.write = "_writeChunk"]

\* this._codecs || BlockEncoder.getDefaultCodecs()
BeCodecs(e) == IF e.codecs = {} THEN getDefaultCodecs ELSE e.codecs

\* BlockEncoder.prototype._write
BlockEncoderWrite(e, val, async) ==
  LET e0 == [e EXCEPT !.compress =
               IF e.codec \in BeCodecs(e) THEN e.codec ELSE Null]
  IN IF e0.compress = Null THEN EmitError(e0, "unsupported codec")
     ELSE LET e1 == IF ~e0.omitHeader
                      THEN PushSegment(e0, "header",
                             HeaderBytes(MAGIC_BYTES, e0.codec, GoodSchema,
                                         e0.syncMarker))
                      ELSE e0
          IN BlockEncoderWriteChunk(BeSwitch(e1), val, async)

\* 'finish' handler of the BlockEncoder
BlockEncoderFinish(e, async) ==
  LET e0 == [e EXCEPT !.finished = TRUE]
  IN IF e0.blockCount # 0 THEN BlockEncoderFlushChunk(e0, 0, FALSE, async) ELSE e0

\* The base class may call _write with one more value.
BeCanWrite ==
  /\ blockEnc.pendingCb = 0
  /\ ~blockEnc.finished
  /\ Len(blockIn) < MaxRecs

\* The base class may call _read.
BeCanRead == ~blockEnc.reading /\ blockEnc.eos = 0

\* 'finish' may be emitted: the producer ended the stream and every write
\* callback was invoked.
BeCanFinish == ~blockEnc.finished /\ blockEnc.pendingCb = 0

\* The base class hands a value to this._write.
BeWrite(val, async) ==
  /\ BeCanWrite
  /\ LET e == [blockEnc EXCEPT !.pendingCb = @ + 1]
     IN blockEnc' = IF e.write = "_write"
                      THEN BlockEncoderWrite(e, val, async)
                      ELSE BlockEncoderWriteChunk(e, val, async)
  /\ blockIn' = IF TypeRejects(val) THEN blockIn ELSE Append(blockIn, val)
  /\ UNCHANGED <<rawVars, file, blockDec>>

\* The base class calls _read for the consumer.
BeRead ==
  /\ BeCanRead
  /\ blockEnc' = BlockEncoderRead([blockEnc EXCEPT !.reading = TRUE])
  /\ UNCHANGED <<rawVars, file, blockIn, blockDec>>

\* The i-th outstanding compression completes: its callback runs.
BeCompressed(i) ==
  /\ i \in 1..Len(blockEnc.inflight)
  /\ LET b == blockEnc.inflight[i]
         e == [blockEnc EXCEPT !.inflight =
                 SubSeq(@, 1, i - 1) \o SubSeq(@, i + 1, Len(@))]
     IN blockEnc' = BeBlockCallback(e, b.index, b.count, b.cb,
                      CompressCall(e.compress, b.data))
  /\ UNCHANGED <<rawVars, file, blockIn, blockDec>>

\* The function given to process.nextTick in _read runs: push(null).
BeTick ==
  /\ blockEnc.tick > 0
  /\ blockEnc' = PushNull([blockEnc EXCEPT !.tick = @ - 1])
  /\ UNCHANGED <<rawVars, file, blockIn, blockDec>>

\* 'finish' handler of the BlockEncoder.
BeFinish(async) ==
  /\ BeCanFinish
  /\ blockEnc' = BlockEncoderFinish(blockEnc, async)
  /\ UNCHANGED <<rawVars, file, blockIn, blockDec>>

\* The bytes the BlockEncoder has pushed so far.
BeWire == Flatten([i \in 1..Len(blockEnc.out) |-> blockEnc.out[i].bytes])

(***************************************************************************)
(* BlockDecoder                                                            *)
(*   write      which function this._write currently is                    *)
(*   nBlocks    the counters of the live chunkCb closures of _writeChunk,  *)
(*              keyed by the block index at which their chunk started      *)
(*   inflight   decompressions whose callback has not run yet              *)
(*   tick       a process.nextTick(cb) is scheduled                        *)
(*   errors, metadata   the 'error' and 'metadata' events emitted          *)
(*   dispatched the data handed to the decompressor, in order              *)
(*   nested     what the base class does inside the write callback when    *)
(*              _read invokes it (data.cb()): nothing, or at once the next *)
(*              _write (a buffered chunk), or the 'finish' event           *)
(*   inRead     _read has invoked data.cb() and has not returned yet       *)
(*   reentered  _read was called while inRead                              *)
(*   woken      _read was called for a stalled read, by a completion or by *)
(*              the 'finish' handler                                       *)
(***************************************************************************)
NoNested == [kind |-> "none", chunk |-> <<>>, asyncs |-> {}]

BlockDecoderInit(decode) ==
  [tap |-> Tap(<<>>), blockTap |-> Tap(<<>>), syncMarker |-> Null,
   readValue |-> FALSE, decode |-> decode, queue |-> OrderedQueue,
   decompress |-> Null, index |-> 0, needPush |-> FALSE, finished |-> FALSE,
   write |-> "_write", nBlocks |-> <<>>, inflight |-> {}, tick |-> FALSE,
   errors |-> <<>>, metadata |-> <<>>, dispatched |-> <<>>,
   hdrSplit |-> FALSE, ooo |-> FALSE,
   nested |-> NoNested, inRead |-> FALSE, reentered |-> FALSE,
   woken |-> FALSE,
   out |-> <<>>, eos |-> 0, reading |-> FALSE, pushAfterEnd |-> FALSE,
   pendingCb |-> 0, offset |-> 0]

\* chunkCb of _writeChunk, for the closure id.
chunkCbEager(d, id) == [d EXCEPT !.nBlocks[id] = @ - 1, !.pendingCb = @ - 1]

chunkCb(d, id) ==
  LET n == d.nBlocks[id] - 1
  IN IF n = 0
       THEN [d EXCEPT !.nBlocks[id] = n, !.pendingCb = @ - 1]
       ELSE [d EXCEPT !.nBlocks[id] = n]

\* this.push(this._readValue(tap))
BdPushValue(d) ==
  LET r == createReader(d.decode, d.blockTap)
  IN Push([d EXCEPT !.blockTap = r.tap], r.val)

\* if (this._finished) in _read, when the queue gives no block
BdEndReachedAlways(d) == TRUE

BdEndReached(d) == d.finished

\* this._needPush = false at the start of _read
BdClearNeedPush(d) == [d EXCEPT !.needPush = FALSE]

RECURSIVE BlockDecoderWriteChunk(_, _, _)
RECURSIVE BlockDecoderFinish(_)
RECURSIVE BlockDecoderRead(_)

\* data.cb() in _read, for the closure id: when it invokes the write callback,
\* the base class may call the next _write or emit 'finish' before it
\* returns.
BdDataCb(d, id) ==
  LET d1 == chunkCb([d EXCEPT !.inRead = TRUE], id)
      n  == d1.nested
      d2 == [d1 EXCEPT !.nested = NoNested]
  IN IF d1.pendingCb < d.pendingCb /\ n.kind = "write"
       THEN BlockDecoderWriteChunk(
              [d2 EXCEPT !.pendingCb = @ + 1, !.offset = @ + Len(n.chunk)],
              n.chunk, n.asyncs)
     ELSE IF d1.pendingCb < d.pendingCb /\ n.kind = "finish"
       THEN BlockDecoderFinish(d2)
     ELSE d2

\* BlockDecoder.prototype._read
BlockDecoderRead(d) ==
  LET d0  == [BdClearNeedPush(d) EXCEPT !.reentered = @ \/ d.inRead]
      tap == d0.blockTap
  IN IF tap.pos >= Len(tap.buf)
       THEN LET r == QueuePop(d0.queue)
            IN IF ~r.ok
                 THEN IF BdEndReached(d0) THEN PushNull(d0)
                      ELSE [d0 EXCEPT !.needPush = TRUE]
                 ELSE LET d1 == BdDataCb([d0 EXCEPT !.queue = r.queue], r.item.cb)
                      IN BdPushValue([d1 EXCEPT !.blockTap = Tap(r.item.buf),
                                                !.inRead = FALSE])
       ELSE BdPushValue(d0)

\* var index = this._index++ in _createBlockCallback
BdTakeIndexStuck(d) == [index |-> d.index, d |-> d]

BdTakeIndex(d) == [index |-> d.index, d |-> [d EXCEPT !.index = @ + 1]]

\* if (self._needPush) in the function returned by _createBlockCallback
BdWakeNever(d) == FALSE

BdWake(d) == d.needPush

\* The function returned by BlockDecoder.prototype._createBlockCallback(cb),
\* called with res = (err, data); cb is the chunkCb closure id.
BdBlockCallback(d, index, res, cb) ==
  IF res.err
    THEN chunkCb(EmitError(d, "codec"), cb)
    ELSE LET d1 == [d EXCEPT !.queue = QueuePush(@, BlockData(index, res.data, cb, 0))]
         IN IF BdWake(d1)
              THEN BlockDecoderRead([d1 EXCEPT !.woken = TRUE])
              ELSE d1

\* this._syncMarker.equals(block.sync)
BdSyncAny(d, block) == TRUE

BdSyncEquals(d, block) == d.syncMarker = block.sync

\* The loop of _writeChunk and the chunkCb() after it; block j of the chunk
\* is decompressed asynchronously when j is in asyncs, else its callback runs
\* before decompress returns.
RECURSIVE BdChunkLoop(_, _, _, _)
BdChunkLoop(d, id, asyncs, j) ==
  LET r == tryReadBlock(d.tap)
  IN IF ~r.ok THEN chunkCb([d EXCEPT !.tap = r.tap], id)
     ELSE IF ~BdSyncEquals(d, r.block)
       THEN EmitError([d EXCEPT !.tap = r.tap], "invalid sync marker")
     ELSE LET d1 == [d EXCEPT !.tap = r.tap, !.nBlocks[id] = @ + 1,
                              !.dispatched = Append(@, r.block.data)]
              t  == BdTakeIndex(d1)
              d3 == IF j \in asyncs
                      THEN [t.d EXCEPT !.inflight = @ \cup
                              {[index |-> t.index, data |-> r.block.data, cb |-> id]}]
                      ELSE BdBlockCallback(t.d, t.index,
                                           Decompress(t.d.decompress, r.block.data), id)
          IN BdChunkLoop(d3, id, asyncs, j + 1)

\* BlockDecoder.prototype._writeChunk
BlockDecoderWriteChunk(d, chunk, asyncs) ==
  LET id == d.index
      d0 == [d EXCEPT !.tap = Tap(Slice(d.tap.buf, d.tap.pos, Len(d.tap.buf)) \o chunk),
                      !.nBlocks = (id :> 1) @@ @]
  IN BdChunkLoop(d0, id, asyncs, 0)

\* MAGIC_BYTES.equals(header.magic)
BdMagicAny(header) == TRUE

BdMagicEquals(header) == header.magic = MAGIC_BYTES

\* BlockDecoder.prototype._decodeHeader: the decoder afterwards and the
\* returned value.
BlockDecoderDecodeHeader(d) ==
  LET r      == HeaderRead(d.tap)
      header == r.header
      d1     == [d EXCEPT !.tap = r.tap]
      codec  == header.codec
      d2     == [d1 EXCEPT !.decompress =
                   IF codec \in getDefaultCodecs THEN codec ELSE Null]
  IN IF ~isValid(r.tap) THEN [d |-> d1, ret |-> "false"]
     ELSE IF ~BdMagicEquals(header)
       THEN [d |-> EmitError(d1, "invalid magic bytes"), ret |-> "undefined"]
     ELSE IF d2.decompress = Null
       THEN [d |-> EmitError(d2, "unknown codec"), ret |-> "undefined"]
     ELSE IF header.schema # GoodSchema
       THEN [d |-> EmitError(d2, "schema"), ret |-> "undefined"]
     ELSE [d |-> [d2 EXCEPT !.readValue = TRUE, !.syncMarker = header.sync,
                            !.metadata = Append(@, [codec |-> codec,
                                                    dispatched |-> d2.index,
                                                    pushed |-> Len(d2.out)])],
           ret |-> "true"]

\* 'finish' handler of the BlockDecoder
BlockDecoderFinish(d) ==
  LET d0 == [d EXCEPT !.finished = TRUE]
  IN IF d0.needPush
       THEN BlockDecoderRead([d0 EXCEPT !.woken = TRUE])
       ELSE d0

\* this._write = this._writeChunk
BdSwitch(d) == [d EXCEPT !.write = "_writeChunk"]

\* BlockDecoder.prototype._write
BlockDecoderWrite(d, chunk, asyncs) ==
  LET d0 == [d EXCEPT !.tap = Tap(d.tap.buf \o chunk),
                      !.hdrSplit = d.tap.buf # <<>>]
      h  == BlockDecoderDecodeHeader(d0)
  IN IF h.ret # "true"
       THEN [h.d EXCEPT !.tick = TRUE]
       ELSE BlockDecoderWriteChunk(BdSwitch(h.d), <<>>, asyncs)

\* Closures that nothing refers to any more are dropped.
BdLive(d) ==
  {b.cb : b \in d.inflight} \cup {d.queue.items[i].cb : i \in 1..Len(d.queue.items)}

BdCollect(d) == [d EXCEPT !.nBlocks = [id \in (DOMAIN @) \cap BdLive(d) |-> @[id]]]

\* The bytes the BlockDecoder is given: a container file, followed by the
\* output of the BlockEncoder when that is piped into it.
BdWire == IF blockEnc.piped THEN file \o BeWire ELSE file

\* Number of complete blocks in buf from offset pos on.
RECURSIVE BdBlocksIn(_, _)
BdBlocksIn(buf, pos) ==
  LET r == tryReadBlock([buf |-> buf, pos |-> pos])
  IN IF r.ok THEN 1 + BdBlocksIn(buf, r.tap.pos) ELSE 0

\* Number of blocks that a write of the next n bytes can hand to the
\* decompressor: the choices of synchronous or asynchronous completion are
\* made for these.
BdBlocksAhead(n) ==
  LET chunk == Slice(BdWire, blockDec.offset, blockDec.offset + n)
      tap   == blockDec.tap
  IN IF blockDec.write = "_write"
       THEN BdBlocksIn(tap.buf \o chunk, HeaderLen)
       ELSE BdBlocksIn(Slice(tap.buf, tap.pos, Len(tap.buf)) \o chunk, 0)

\* The base class may call _write.
BdCanWrite(n) ==
  /\ blockDec.pendingCb = 0
  /\ ~blockDec.finished
  /\ blockDec.offset + n <= Len(BdWire)

\* The base class may call _read.
BdCanRead == ~blockDec.reading /\ blockDec.eos = 0

\* 'finish' may be emitted.
BdCanFinish ==
  /\ ~blockDec.finished
  /\ blockDec.pendingCb = 0
  /\ blockDec.offset = Len(BdWire)
  /\ blockEnc.piped => blockEnc.eos > 0

\* The base class hands the next n bytes to this._write.
BdWrite(n, asyncs) ==
  /\ BdCanWrite(n)
  /\ LET d     == [blockDec EXCEPT !.pendingCb = @ + 1, !.offset = @ + n]
         chunk == Slice(BdWire, blockDec.offset, blockDec.offset + n)
     IN blockDec' = BdCollect(IF d.write = "_write"
                                THEN BlockDecoderWrite(d, chunk, asyncs)
                                ELSE BlockDecoderWriteChunk(d, chunk, asyncs))
  /\ UNCHANGED <<rawVars, file, blockIn, blockEnc>>

\* The callback given to process.nextTick in _write runs.
BdTick ==
  /\ blockDec.tick
  /\ blockDec' = [blockDec EXCEPT !.tick = FALSE, !.pendingCb = @ - 1]
  /\ UNCHANGED <<rawVars, file, blockIn, blockEnc>>

\* The base class calls _read for the consumer.
BdRead ==
  /\ BdCanRead
  /\ blockDec' = BdCollect(BlockDecoderRead([blockDec EXCEPT !.reading = TRUE]))
  /\ UNCHANGED <<rawVars, file, blockIn, blockEnc>>

\* An asynchronous decompression completes: its callback runs.
BdDecompressed(b) ==
  /\ b \in blockDec.inflight
  /\ LET d == [blockDec EXCEPT !.inflight = @ \ {b},
                 !.ooo = @ \/ \E c \in blockDec.inflight : c.index < b.index]
     IN blockDec' = BdCollect(BdBlockCallback(d, b.index,
                                Decompress(d.decompress, b.data), b.cb))
  /\ UNCHANGED <<rawVars, file, blockIn, blockEnc>>

\* 'finish' handler of the BlockDecoder.
BdFinish ==
  /\ BdCanFinish
  /\ blockDec' = BdCollect(BlockDecoderFinish(blockDec))
  /\ UNCHANGED <<rawVars, file, blockIn, blockEnc>>

(***************************************************************************)
(* Streams that a specification does not use stay as constructed.          *)
(***************************************************************************)
RawIdle ==
  /\ rawIn = <<>>
  /\ rawEnc = RawEncoderInit(1)
  /\ rawDec = RawDecoderInit(TRUE)

BlockIdle ==
  /\ file = <<>>
  /\ blockIn = <<>>
  /\ blockEnc = BlockEncoderInit(1, NullCodec, FALSE, SyncA, FALSE)
  /\ blockDec = BlockDecoderInit(TRUE)

(***************************************************************************)
(* Specification of the raw streams: a RawEncoder whose output is fed, in  *)
(* arbitrary chunks, to a RawDecoder.                                      *)
(***************************************************************************)
InitRaw ==
  /\ rawIn = <<>>
  /\ \E k \in 1..MaxBatch : rawEnc = RawEncoderInit(k)
  /\ \E decode \in BOOLEAN : rawDec = RawDecoderInit(decode)
  /\ BlockIdle

NextRaw ==
  \/ \E val \in Values : ReTransform(val)
  \/ ReFlush
  \/ \E n \in 1..(MaxRecs * MaxVal) : RdWrite(n)
  \/ RdRead
  \/ RdFinish

SpecRaw == InitRaw /\ [][NextRaw]_vars

(***************************************************************************)
(* C3 - Raw round trip: whatever the batch size and however the encoder's  *)
(* bytes are cut into write chunks, the RawDecoder emits a prefix of the   *)
(* values written to the RawEncoder, its end-of-stream comes once, after   *)
(* exactly those values and nothing else, and once the encoder has ended   *)
(* the decoder cannot come to rest (no write, read or finish possible)     *)
(* before end-of-stream; with no values no byte and no record is emitted.  *)
(***************************************************************************)
RawRoundTrip ==
  /\ IsPrefix(rawDec.out, EmittedAll(rawDec.decode, rawIn))
  /\ ~rawDec.pushAfterEnd
  /\ rawDec.eos > 0 =>
        /\ rawDec.eos = 1
        /\ rawDec.out = EmittedAll(rawDec.decode, rawIn)
  /\ (rawEnc.flushed /\ rawIn = <<>>) => (RawWire = <<>> /\ rawDec.out = <<>>)
  /\ (rawEnc.flushed /\ ~RdCanWrite(1) /\ ~RdCanRead /\ ~RdCanFinish)
        => rawDec.eos = 1

\* Several values went through, one of them cut by a chunk boundary.
RawRoundTripWitness ==
  /\ rawDec.eos = 1
  /\ Len(rawDec.out) >= 2
  /\ \E i \in 1..Len(rawIn) : rawIn[i] > 1
  /\ \E c \in rawDec.cbTrace : c.partial

(***************************************************************************)
(* C4 - RawDecoder backpressure: the number of write callbacks not yet     *)
(* invoked is 0 or 1, and every invocation of a write callback happened in *)
(* _read, with the stream not finished, after a failed read (need_push     *)
(* set, no complete value at the tap's cursor).                            *)
(***************************************************************************)
RawBackpressure ==
  /\ rawDec.pendingCb \in {0, 1}
  /\ \A c \in rawDec.cbTrace :
        c.site = "read" /\ ~c.finished /\ c.needPush /\ ~c.complete

\* A callback is withheld while a complete value waits in the tap, after an
\* earlier callback was released by a failed read.
RawBackpressureWitness ==
  /\ rawDec.pendingCb = 1
  /\ HasCompleteValue(rawDec.tap)
  /\ rawDec.cbTrace # {}

(***************************************************************************)
(* C5 - RawEncoder overflow stability: for every batch size the chunks     *)
(* pushed so far, followed by the bytes batched in the tap, are the        *)
(* serializations of the values written, in order; after _flush the chunks *)
(* alone are.                                                              *)
(***************************************************************************)
RawOverflowStable ==
  IF rawEnc.flushed
    THEN Flatten(rawEnc.out) = EncodeAll(rawIn)
    ELSE /\ isValid(rawEnc.tap)
         /\ Flatten(rawEnc.out) \o Slice(rawEnc.tap.buf, 0, rawEnc.tap.pos)
              = EncodeAll(rawIn)

\* A value longer than the batch size overflowed a non-empty batch.
RawOverflowWitness ==
  /\ rawEnc.flushed
  /\ Len(rawEnc.out) >= 2
  /\ \E i \in 2..Len(rawIn) : rawIn[i] > rawEnc.batchSize

(***************************************************************************)
(* Specification of the BlockDecoder: it is given a container file, in     *)
(* arbitrary chunks.  The files have a good or a bad header, blocks of one *)
(* or two values with the header's sync marker or another one, and are     *)
(* complete or cut short.                                                  *)
(***************************************************************************)
FileBlock(codec, vals, sync) ==
  BlockBytes(Len(vals), Compress(codec, EncodeAll(vals)), sync)

BlockKinds ==
  {[vals |-> <<1>>, sync |-> SyncA],
   [vals |-> <<MaxVal, 1>>, sync |-> SyncA],
   [vals |-> <<1>>, sync |-> SyncB]}

BlockSeqs == UNION {[1..n -> BlockKinds] : n \in 0..MaxBlocks}

FileOf(magic, codec, schema, bs) ==
  HeaderBytes(magic, codec, schema, SyncA)
    \o Flatten([i \in 1..Len(bs) |-> FileBlock(codec, bs[i].vals, bs[i].sync)])

GoodFiles ==
  {FileOf(MAGIC_BYTES, codec, GoodSchema, bs) :
     codec \in getDefaultCodecs, bs \in BlockSeqs}

BadHeaderFiles ==
  {FileOf(h[1], h[2], h[3], bs) :
     h \in {<<MAGIC_BYTES + 1, NullCodec, GoodSchema>>,
            <<MAGIC_BYTES, SnappyCodec, GoodSchema>>,
            <<MAGIC_BYTES, NullCodec, BadSchema>>},
     bs \in {b \in BlockSeqs : Len(b) <= 1}}

\* A file, or a file without its last byte.
TestFiles ==
  GoodFiles \cup BadHeaderFiles
    \cup {SubSeq(f, 1, Len(f) - 1) : f \in GoodFiles}

InitBlockDec ==
  /\ RawIdle
  /\ file \in TestFiles
  /\ blockIn = <<>>
  /\ blockEnc = BlockEncoderInit(1, NullCodec, FALSE, SyncA, FALSE)
  /\ \E decode \in BOOLEAN : blockDec = BlockDecoderInit(decode)

NextBlockDec ==
  \/ \E n \in 1..Len(BdWire) : \E asyncs \in SUBSET (0..(BdBlocksAhead(n) - 1)) :
        BdWrite(n, asyncs)
  \/ BdTick
  \/ BdRead
  \/ \E b \in blockDec.inflight : BdDecompressed(b)
  \/ BdFinish

SpecBlockDec == InitBlockDec /\ [][NextBlockDec]_vars

\* The values _read pushes for one decompressed block: it reads until the
\* block tap is exhausted.
RECURSIVE ReadAll(_, _)
ReadAll(decode, tap) ==
  IF tap.pos >= Len(tap.buf) THEN <<>>
  ELSE LET r == createReader(decode, tap)
       IN <<r.val>> \o ReadAll(decode, r.tap)

\* The values pushed for the blocks when every decompression completes
\* before decompress returns: block after block, up to a block whose
\* decompression fails.
RECURSIVE SyncRecords(_, _, _)
SyncRecords(decode, codec, blocks) ==
  IF blocks = <<>> THEN <<>>
  ELSE LET r == Decompress(codec, Head(blocks))
       IN IF r.err THEN <<>>
          ELSE ReadAll(decode, Tap(r.data))
                 \o SyncRecords(decode, codec, Tail(blocks))

\* Number of 'error' events with message err.
RECURSIVE CountOf(_, _)
CountOf(errors, err) ==
  IF errors = <<>> THEN 0
  ELSE (IF Head(errors) = err THEN 1 ELSE 0) + CountOf(Tail(errors), err)

\* The bytes given to the decoder start with a complete header; it is a
\* valid one.
WireHasHeader == Len(BdWire) >= HeaderLen

WireHeaderValid ==
  /\ WireHasHeader
  /\ BdWire[1] = MAGIC_BYTES
  /\ BdWire[2] \in getDefaultCodecs
  /\ BdWire[3] = GoodSchema

\* Number of complete blocks of buf from offset pos on that precede the
\* first block whose sync marker is not sync.
RECURSIVE GoodBlocksIn(_, _, _)
GoodBlocksIn(buf, pos, sync) ==
  LET r == tryReadBlock([buf |-> buf, pos |-> pos])
  IN IF r.ok /\ r.block.sync = sync
       THEN 1 + GoodBlocksIn(buf, r.tap.pos, sync)
       ELSE 0

(***************************************************************************)
(* C1 - BlockDecoder order preservation: in whatever order the             *)
(* decompressions complete, the values pushed are a prefix of the values   *)
(* that synchronous decompression of the dispatched blocks, in dispatch    *)
(* order, gives; at end-of-stream without error they are all of them.      *)
(***************************************************************************)
BlockOrderPreserved ==
  LET d   == blockDec
      exp == SyncRecords(d.decode, d.decompress, d.dispatched)
  IN /\ IsPrefix(d.out, exp)
     /\ (d.eos > 0 /\ d.errors = <<>>) => d.out = exp

\* Two blocks were decompressed out of order and all their values pushed.
BlockOrderWitness ==
  /\ blockDec.ooo
  /\ blockDec.eos = 1
  /\ Len(blockDec.dispatched) >= 2
  /\ Len(blockDec.out) >= 3

(***************************************************************************)
(* C7 - BlockDecoder metadata: 'metadata' is emitted at most once, only    *)
(* when the bytes written so far hold a complete header with valid magic,  *)
(* a registered codec and a parsable schema, at a moment when no block was *)
(* dispatched and no value pushed; it has been emitted once such a header  *)
(* is written, and before any dispatch or push.                            *)
(***************************************************************************)
BlockMetadataOnce ==
  LET d == blockDec
  IN /\ Len(d.metadata) <= 1
     /\ \A i \in 1..Len(d.metadata) :
          /\ WireHeaderValid
          /\ d.offset >= HeaderLen
          /\ d.metadata[i].codec = BdWire[2]
          /\ d.metadata[i].dispatched = 0
          /\ d.metadata[i].pushed = 0
     /\ (d.index > 0 \/ d.out # <<>>) => Len(d.metadata) = 1
     /\ (WireHeaderValid /\ d.offset >= HeaderLen) => Len(d.metadata) = 1

\* The header came in several chunks; a block was dispatched and a value
\* pushed after the metadata.
BlockMetadataWitness ==
  /\ Len(blockDec.metadata) = 1
  /\ blockDec.hdrSplit
  /\ blockDec.index >= 1
  /\ blockDec.out # <<>>

(***************************************************************************)
(* C8 - Header failures are fatal and surface once: when the header        *)
(* written has wrong magic bytes, an unknown codec or an unparsable        *)
(* schema, at most one 'error' is emitted whatever is written afterwards,  *)
(* no value is pushed and no block dispatched.                             *)
(***************************************************************************)
BadHeaderSurfacesOnce ==
  (WireHasHeader /\ ~WireHeaderValid) =>
     /\ Len(blockDec.errors) <= 1
     /\ blockDec.out = <<>>
     /\ blockDec.index = 0

(***************************************************************************)
(* C9 - A bad sync marker is fatal and surfaces once: no block at or after *)
(* the first block whose sync differs from the header's is ever            *)
(* dispatched; once such a block was read, 'invalid sync marker' has been  *)
(* emitted exactly once, the write callback of its chunk is never invoked, *)
(* and the values pushed are values of the blocks before it.               *)
(***************************************************************************)
BadSyncFatal ==
  LET d    == blockDec
      good == IF WireHeaderValid
                THEN GoodBlocksIn(BdWire, HeaderLen, BdWire[HeaderLen]) ELSE 0
  IN /\ d.index <= good
     /\ CountOf(d.errors, "invalid sync marker") <= 1
     /\ CountOf(d.errors, "invalid sync marker") = 1 =>
          /\ d.index = good
          /\ Len(d.dispatched) = good
          /\ d.pendingCb = 1 /\ ~d.tick
          /\ IsPrefix(d.out, SyncRecords(d.decode, d.decompress, d.dispatched))

\* A block with a bad sync marker was read after a good block, whose values
\* were pushed.
BadSyncWitness ==
  /\ CountOf(blockDec.errors, "invalid sync marker") = 1
  /\ blockDec.index = 1
  /\ blockDec.inflight = {}
  /\ blockDec.blockTap.pos >= Len(blockDec.blockTap.buf)
  /\ blockDec.out # <<>>


(***************************************************************************)
(* C12 - BlockDecoder write callback: the callback of a write is invoked   *)
(* at most once and never while a block dispatched from its chunk is still *)
(* being decompressed or waits in the queue, so that all such blocks       *)
(* belong to one chunk, the one whose callback is withheld; in block phase *)
(* the callback is withheld only for such a block (or after a bad sync     *)
(* marker): a chunk without a complete block releases it at once.          *)
(***************************************************************************)
BlockWriteCbRelease ==
  LET d    == blockDec
      live == BdLive(d)
  IN /\ d.pendingCb \in {0, 1}
     /\ Cardinality(live) <= 1
     /\ \A b \in d.inflight : b.cb \in DOMAIN d.nBlocks /\ d.nBlocks[b.cb] >= 1
     /\ live # {} => d.pendingCb = 1
     /\ (/\ d.pendingCb = 1
         /\ d.write = "_writeChunk"
         /\ CountOf(d.errors, "invalid sync marker") = 0)
          => live # {}

\* Two blocks of one chunk were being decompressed together, completed out
\* of order, and the callback was released after both were taken by _read.
BlockWriteCbWitness ==
  /\ blockDec.ooo
  /\ Len(blockDec.dispatched) >= 2
  /\ blockDec.pendingCb = 0
  /\ blockDec.write = "_writeChunk"
  /\ blockDec.offset = Len(BdWire)
  /\ blockDec.errors = <<>>

(***************************************************************************)
(* Specification of the BlockEncoder alone: values are written one at a    *)
(* time, the consumer reads, compressions complete at once or later, and   *)
(* the producer may end the stream at any time, also before any write.     *)
(***************************************************************************)
InitBlockEnc ==
  /\ RawIdle
  /\ file = <<>>
  /\ blockIn = <<>>
  /\ \E blockSize \in 1..MaxBatch, codec \in {NullCodec, DeflateCodec, SnappyCodec},
        omitHeader \in BOOLEAN, syncMarker \in {SyncA, SyncB} :
        blockEnc = BlockEncoderInit(blockSize, codec, omitHeader, syncMarker, FALSE)
  /\ blockDec = BlockDecoderInit(TRUE)

NextBlockEnc ==
  \/ \E val \in Values, async \in BOOLEAN : BeWrite(val, async)
  \/ BeRead
  \/ \E i \in 1..Len(blockEnc.inflight) : BeCompressed(i)
  \/ BeTick
  \/ \E async \in BOOLEAN : BeFinish(async)

SpecBlockEnc == InitBlockEnc /\ [][NextBlockEnc]_vars

\* The kinds of the segments of a block, in the order _read pushes them.
BlockSegments == <<"count", "length", "data", "sync">>

\* The segments of out from position first on are whole blocks, each ending
\* with the configured sync marker.
OnlyBlocksFrom(out, first, sync) ==
  /\ (Len(out) - first + 1) % 4 = 0
  /\ \A i \in first..Len(out) :
       /\ out[i].kind = BlockSegments[((i - first) % 4) + 1]
       /\ out[i].kind = "sync" => out[i].bytes = <<sync>>

\* C6: with a registered codec and omitHeader false, the header is the first
\* segment pushed as soon as one value has been written, nothing is pushed
\* before a value is written, and it is pushed once only: every later segment
\* belongs to a block; with omitHeader true no header is pushed and the output
\* is made of whole blocks, each ending with the configured sync marker.
BlockHeaderEmission ==
  LET e == blockEnc
  IN e.codec \in getDefaultCodecs =>
       IF e.omitHeader
         THEN OnlyBlocksFrom(e.out, 1, e.syncMarker)
         ELSE /\ blockIn = <<>> => e.out = <<>>
              /\ blockIn # <<>> =>
                   /\ Len(e.out) >= 1
                   /\ e.out[1] = [kind |-> "header",
                                  bytes |-> HeaderBytes(MAGIC_BYTES, e.codec,
                                              GoodSchema, e.syncMarker)]
                   /\ OnlyBlocksFrom(e.out, 2, e.syncMarker)

\* A header and two blocks were pushed, for three values written.
BlockHeaderWitness ==
  /\ ~blockEnc.omitHeader
  /\ Len(blockIn) >= 3
  /\ Len(blockEnc.out) >= 9
  /\ blockEnc.out[1].kind = "header"

\* Two blocks and no header were pushed with omitHeader.
BlockNoHeaderReached ==
  /\ blockEnc.omitHeader
  /\ Len(blockEnc.out) >= 8

\* C10: once 'finish' was emitted and no error occurred, the encoder does not
\* come to rest before it has emitted end-of-stream: when no compression is
\* outstanding, no push(null) is scheduled and the consumer's read is not
\* answered yet (so that no further _read is called), end-of-stream was
\* emitted, whatever the number of values written.
BlockEncoderTerminates ==
  (/\ blockEnc.finished
   /\ blockEnc.errors = <<>>
   /\ blockEnc.inflight = <<>>
   /\ blockEnc.tick = 0
   /\ ~BeCanRead)
    => blockEnc.eos = 1

\* The same, when at least one value was written.
BlockEncoderTerminatesNonEmpty ==
  (/\ blockEnc.finished
   /\ blockIn # <<>>
   /\ blockEnc.errors = <<>>
   /\ blockEnc.inflight = <<>>
   /\ blockEnc.tick = 0
   /\ ~BeCanRead)
    => blockEnc.eos = 1

\* The data segments of the blocks pushed, decompressed and concatenated:
\* the record encodings that were emitted.
RECURSIVE BlocksPayload(_, _)
BlocksPayload(codec, out) ==
  IF out = <<>> THEN <<>>
  ELSE (IF Head(out).kind = "data"
          THEN Decompress(codec, Head(out).bytes).data ELSE <<>>)
         \o BlocksPayload(codec, Tail(out))

\* C11: end-of-stream is pushed at most once; push(null) is scheduled, and
\* end-of-stream pushed, only when finished is true, pending is 0 and the
\* queue is empty; by then every value written was pushed inside a block,
\* and nothing is pushed after end-of-stream.
BlockEncoderEndSafe ==
  LET e == blockEnc
  IN /\ e.eos <= 1
     /\ e.tick + e.eos <= 1
     /\ (e.tick > 0 \/ e.eos > 0) =>
          /\ e.finished
          /\ e.pending = 0
          /\ e.inflight = <<>>
          /\ e.queue.items = <<>>
          /\ BlocksPayload(e.codec, e.out) = EncodeAll(blockIn)
     /\ ~e.pushAfterEnd

\* End-of-stream was pushed after all values were written and pushed in at
\* least two blocks.
BlockEncoderEndWitness ==
  /\ blockEnc.eos = 1
  /\ Len(blockIn) = MaxRecs
  /\ Len(blockEnc.out) >= 8

\* The encoder after the values vs were written to e, when every compression
\* completes before compress returns and the consumer has a read outstanding
\* after every write.
RECURSIVE SyncWrites(_, _)
SyncWrites(e, vs) ==
  IF vs = <<>> THEN e
  ELSE LET e0 == [e EXCEPT !.pendingCb = @ + 1]
           e1 == IF e0.write = "_write"
                   THEN BlockEncoderWrite(e0, Head(vs), FALSE)
                   ELSE BlockEncoderWriteChunk(e0, Head(vs), FALSE)
       IN SyncWrites(BlockEncoderRead(e1), Tail(vs))

\* The segments pushed by synchronous execution for the values written so
\* far, and for the end of the input when 'finish' was emitted.
SyncOut ==
  LET e0 == BlockEncoderInit(blockEnc.optsBlockSize, blockEnc.codec,
                             blockEnc.omitHeader, blockEnc.syncMarker,
                             blockEnc.piped)
      e1 == SyncWrites(BlockEncoderRead(e0), blockIn)
      e2 == IF blockEnc.finished THEN BlockEncoderFinish(e1, FALSE) ELSE e1
  IN e2.out

\* C13: whenever the compressions complete, the segments pushed are the
\* first of those that synchronous execution pushes for the same values (the
\* header, then count, length, data and sync marker of each block in flush
\* order), and all of them once end-of-stream is pushed.
BlockEmissionOrder ==
  /\ IsPrefix(blockEnc.out, SyncOut)
  /\ blockEnc.eos > 0 => blockEnc.out = SyncOut

\* A block was pushed and the compression of the last one, started by
\* 'finish', is still running while a read waits for it.
BlockEmissionWitness ==
  /\ blockEnc.finished
  /\ blockEnc.inflight # <<>>
  /\ blockEnc.needPush
  /\ Len(blockEnc.out) >= 5
  /\ Len(SyncOut) > Len(blockEnc.out)

\* The indices given to the blocks that are being compressed or wait in the
\* queue of the encoder, oldest compression first.
BeIndices ==
  [i \in 1..Len(blockEnc.inflight) |-> blockEnc.inflight[i].index]
    \o [i \in 1..Len(blockEnc.queue.items) |-> blockEnc.queue.items[i].index]

\* Number of blocks the encoder has submitted to the compressor: those
\* pushed, queued or being compressed (none is dropped without an error).
BeSubmitted ==
  Cardinality({i \in 1..Len(blockEnc.out) : blockEnc.out[i].kind = "sync"})
    + Len(blockEnc.queue.items) + Len(blockEnc.inflight)

\* The indices given to the blocks that are being decompressed or wait in
\* the queue of the decoder.
BdIndices ==
  {b.index : b \in blockDec.inflight}
    \cup {blockDec.queue.items[i].index : i \in 1..Len(blockDec.queue.items)}

\* The decoder's indices are 0, 1, 2, ... in dispatch order, without
\* duplicates.
BdIndicesMonotonic ==
  /\ blockDec.index = Len(blockDec.dispatched)
  /\ BdIndices \subseteq 0..(blockDec.index - 1)
  /\ Cardinality(BdIndices)
       = Cardinality(blockDec.inflight) + Len(blockDec.queue.items)

\* C14: in the encoder and in the decoder, the blocks submitted get the
\* indices 0, 1, 2, ... in submission order: every index held by a block in
\* flight or in the queue is a number below the count of blocks submitted,
\* no two of them are equal, and the next index is that count.
BlockIndicesMonotonic ==
  /\ BdIndicesMonotonic
  /\ blockEnc.errors = <<>> =>
       /\ \A i \in 1..Len(BeIndices) :
            /\ BeIndices[i] \in 0..(BeSubmitted - 1)
            /\ \A j \in 1..Len(BeIndices) : i # j => BeIndices[i] # BeIndices[j]
       /\ BeSubmitted > 0 => blockEnc.index = BeSubmitted

\* Sum of the counts of the blocks in the sequence of BlockData bs.
RECURSIVE SumCounts(_)
SumCounts(bs) == IF bs = <<>> THEN 0 ELSE Head(bs).count + SumCounts(Tail(bs))

\* Sum of the counts pushed in the segments out.
RECURSIVE SumPushedCounts(_)
SumPushedCounts(out) ==
  IF out = <<>> THEN 0
  ELSE (IF Head(out).kind = "count" THEN Head(out).bytes[1] ELSE 0)
         + SumPushedCounts(Tail(out))

\* C15: every block pushed carries a count of at least 1 that is the number
\* of values its decompressed data holds, the data being whole value
\* encodings and nothing else; without error, the counts pushed, queued and
\* in flight plus blockCount add up to the number of values written, and the
\* counts pushed alone do at end-of-stream.
BlockCountsExact ==
  LET e == blockEnc
  IN /\ \A i \in 1..Len(e.out) :
          e.out[i].kind = "count" =>
            LET count == e.out[i].bytes[1]
                data  == Decompress(e.codec, e.out[i + 2].bytes).data
                vals  == ReadAll(TRUE, Tap(data))
            IN /\ count >= 1
               /\ Len(vals) = count
               /\ EncodeAll(vals) = data
     /\ e.errors = <<>> =>
          SumPushedCounts(e.out) + SumCounts(e.queue.items)
            + SumCounts(e.inflight) + e.blockCount = Len(blockIn)
     /\ e.eos > 0 => SumPushedCounts(e.out) = Len(blockIn)

\* All values were pushed, one block holds two of them, and the buffer was
\* resized for a value larger than the block size.
BlockCountsWitness ==
  /\ blockEnc.eos = 1
  /\ Len(blockIn) = MaxRecs
  /\ blockEnc.blockSize > blockEnc.optsBlockSize
  /\ \E i \in 1..Len(blockEnc.out) :
       blockEnc.out[i].kind = "count" /\ blockEnc.out[i].bytes[1] >= 2

\* The first value written was larger than the block size: the buffer was
\* resized without a flush.
BlockCountsFirstLargeReached ==
  /\ Len(blockIn) >= 1
  /\ TypeEncode(blockIn[1]) # <<>>
  /\ Len(TypeEncode(blockIn[1])) > blockEnc.optsBlockSize
  /\ blockEnc.eos = 1

\* The blocks of the encoder that are being compressed or wait in the queue.
BeBlocks == blockEnc.inflight \o blockEnc.queue.items

\* C18: at most one compression is outstanding and at most one block is
\* compressed or queued at a time; the callback of a write is withheld
\* exactly while the block that the write flushed is compressed or queued,
\* and this only before 'finish', so that _read never skips it; after
\* 'finish' the only block that can be compressed or queued is the one of the
\* final flush, all earlier ones having been pushed.
BlockEncoderOneOutstanding ==
  LET e == blockEnc
  IN e.errors = <<>> =>
       /\ e.pending \in {0, 1}
       /\ e.pending = Len(e.inflight)
       /\ Len(BeBlocks) <= 1
       /\ e.pendingCb \in {0, 1}
       /\ e.pendingCb = 1 <=> \E i \in 1..Len(BeBlocks) : BeBlocks[i].cb
       /\ e.finished => \A i \in 1..Len(BeBlocks) : ~BeBlocks[i].cb
       /\ SumPushedCounts(e.out) + SumCounts(BeBlocks) + e.blockCount = Len(blockIn)

\* A block was pushed; the next one was compressed after compress returned
\* and waits in the queue for a read, its write's callback withheld.
BlockEncoderOneWitness ==
  /\ blockEnc.pendingCb = 1
  /\ Len(blockEnc.queue.items) = 1
  /\ blockEnc.queue.items[1].cb
  /\ Len(blockEnc.out) >= 5

\* The final flush is being compressed after an earlier block was pushed.
BlockEncoderFinalFlushReached ==
  /\ blockEnc.finished
  /\ Len(blockEnc.inflight) = 1
  /\ Len(blockEnc.out) >= 5

(***************************************************************************)
(* Specification with failing codecs.  A run uses either a BlockEncoder    *)
(* whose compressor, given in opts.codecs, fails on some blocks (no file   *)
(* is read then), or a BlockDecoder that reads a 'deflate' file in which   *)
(* the data of some blocks is not deflated, so that inflateRaw fails (no   *)
(* value is written then).                                                 *)
(***************************************************************************)
\* A block whose data was stored as it is, although the header names a codec.
CorruptBlock(vals, sync) == BlockBytes(Len(vals), EncodeAll(vals), sync)

\* Files in 'deflate' with blocks of which any may be corrupt.
FailFiles ==
  {HeaderBytes(MAGIC_BYTES, DeflateCodec, GoodSchema, SyncA)
     \o Flatten([i \in 1..Len(bs) |->
                   IF i \in bad THEN CorruptBlock(bs[i].vals, SyncA)
                   ELSE FileBlock(DeflateCodec, bs[i].vals, SyncA)]) :
     bs \in {b \in BlockSeqs : Len(b) >= 1 /\ \A i \in 1..Len(b) : b[i].sync = SyncA},
     bad \in SUBSET (1..MaxBlocks)}

InitCodecFail ==
  /\ RawIdle
  /\ blockIn = <<>>
  /\ \/ /\ file = <<>>
        /\ \E blockSize \in 1..MaxBatch, omitHeader \in BOOLEAN :
             blockEnc = [BlockEncoderInit(blockSize, FailCodec, omitHeader, SyncA, FALSE)
                           EXCEPT !.codecs = {FailCodec}]
        /\ blockDec = BlockDecoderInit(TRUE)
     \/ /\ file \in FailFiles
        /\ blockEnc = BlockEncoderInit(1, NullCodec, FALSE, SyncA, FALSE)
        /\ \E decode \in BOOLEAN : blockDec = BlockDecoderInit(decode)

NextCodecFail ==
  \/ file = <<>> /\ NextBlockEnc
  \/ file # <<>> /\ NextBlockDec

SpecCodecFail == InitCodecFail /\ [][NextCodecFail]_vars

\* Number of blocks dispatched by the decoder whose decompression fails and
\* has completed.
BdFailedCount ==
  Cardinality({i \in 1..Len(blockDec.dispatched) :
                 /\ Decompress(blockDec.decompress, blockDec.dispatched[i]).err
                 /\ \A b \in blockDec.inflight : b.index # i - 1})

\* C17: a failing compression or decompression gives one 'error' per failed
\* block and the block is not enqueued.  In the decoder the values pushed are
\* values of the blocks dispatched before the first failing one, whatever
\* completes later.  In the encoder every block queued or pushed is the
\* output of a successful compression, the failed block stays pending so
\* that end-of-stream is not pushed, and from the error on no segment is
\* pushed any more.
CodecFailureFatal ==
  /\ [](/\ CountOf(blockDec.errors, "codec") = BdFailedCount
        /\ \A i \in 1..Len(blockDec.queue.items) :
             ~Decompress(blockDec.decompress,
                         blockDec.dispatched[blockDec.queue.items[i].index + 1]).err
        /\ IsPrefix(blockDec.out,
                    SyncRecords(blockDec.decode, blockDec.decompress,
                                blockDec.dispatched))
        /\ CountOf(blockEnc.errors, "codec") <= 1
        /\ blockEnc.pending = Len(blockEnc.inflight) + CountOf(blockEnc.errors, "codec")
        /\ \A i \in 1..Len(blockEnc.queue.items) : blockEnc.queue.items[i].buf # <<>>
        /\ \A i \in 1..Len(blockEnc.out) :
             blockEnc.out[i].kind = "data" => blockEnc.out[i].bytes # <<>>
        /\ blockEnc.errors # <<>> => blockEnc.eos = 0 /\ blockEnc.tick = 0)
  /\ [][blockEnc.errors # <<>> => blockEnc'.out = blockEnc.out]_vars

\* In the decoder the first of two blocks failed after the second one was
\* decompressed; the second one stays in the queue.
CodecFailureWitness ==
  /\ CountOf(blockDec.errors, "codec") = 1
  /\ Decompress(blockDec.decompress, blockDec.dispatched[1]).err
  /\ Len(blockDec.dispatched) >= 2
  /\ ~Decompress(blockDec.decompress, blockDec.dispatched[2]).err
  /\ blockDec.ooo
  /\ blockDec.inflight = {}
  /\ Len(blockDec.queue.items) = 1

\* In the encoder the compression of the second block failed after the
\* first block was pushed, while a read was waiting.
CodecFailureEncoderReached ==
  /\ blockEnc.errors = <<"codec">>
  /\ Len(blockEnc.out) >= 4
  /\ blockEnc.needPush
  /\ blockEnc.pendingCb = 1

\* The values of the blocks whose decompression succeeds, block after block.
RECURSIVE GoodRecords(_, _, _)
GoodRecords(decode, codec, blocks) ==
  IF blocks = <<>> THEN <<>>
  ELSE LET r == Decompress(codec, Head(blocks))
       IN (IF r.err THEN <<>> ELSE ReadAll(decode, Tap(r.data)))
            \o GoodRecords(decode, codec, Tail(blocks))

\* The values that the decoder holds and has not pushed yet: the rest of the
\* block tap, then the blocks of the queue.
BdHeldRecords ==
  LET d == blockDec
  IN ReadAll(d.decode, d.blockTap)
       \o Flatten([i \in 1..Len(d.queue.items) |->
                     ReadAll(d.decode, Tap(d.queue.items[i].buf))])

\* C19: when end-of-stream is pushed, every block that was dispatched has
\* failed or has had all its values pushed: nothing is being decompressed,
\* queued or left in the block tap; and when 'finish' was emitted without a
\* codec error, no decompression is outstanding: the values of every
\* dispatched block were pushed or are in the block tap or the queue.
BlockDecoderEndComplete ==
  LET d == blockDec
  IN /\ d.eos > 0 =>
          /\ d.inflight = {}
          /\ d.queue.items = <<>>
          /\ d.blockTap.pos >= Len(d.blockTap.buf)
          /\ d.out = GoodRecords(d.decode, d.decompress, d.dispatched)
     /\ (d.finished /\ CountOf(d.errors, "codec") = 0) =>
          /\ d.inflight = {}
          /\ d.out \o BdHeldRecords
               = GoodRecords(d.decode, d.decompress, d.dispatched)

\* End-of-stream was pushed after the values of a block, the last block
\* having failed.
BlockDecoderEndWitness ==
  /\ blockDec.eos = 1
  /\ Len(blockDec.dispatched) >= 2
  /\ CountOf(blockDec.errors, "codec") = 1
  /\ Len(blockDec.out) >= 1

\* End-of-stream was pushed after the values of two blocks that were
\* decompressed out of order.
BlockDecoderEndGoodReached ==
  /\ blockDec.eos = 1
  /\ Len(blockDec.dispatched) >= 2
  /\ blockDec.errors = <<>>
  /\ blockDec.ooo

(***************************************************************************)
(* Specification of the BlockEncoder piped into the BlockDecoder: the      *)
(* decoder is given the bytes the encoder has pushed, in arbitrary chunks, *)
(* and ends once the encoder has ended and all its bytes were written.     *)
(* The encoder writes its own header, or with omitHeader its output        *)
(* follows the header of an existing file, whose sync marker it was given. *)
(***************************************************************************)
InitBlock ==
  /\ RawIdle
  /\ blockIn = <<>>
  /\ \E blockSize \in 1..MaxBatch, codec \in getDefaultCodecs, omitHeader \in BOOLEAN :
        /\ blockEnc = BlockEncoderInit(blockSize, codec, omitHeader, SyncA, TRUE)
        /\ file = IF omitHeader
                    THEN FileOf(MAGIC_BYTES, codec, GoodSchema, <<>>)
                    ELSE <<>>
  /\ blockDec = BlockDecoderInit(TRUE)

NextBlock ==
  \/ \E val \in Values, async \in BOOLEAN : BeWrite(val, async)
  \/ BeRead
  \/ \E i \in 1..Len(blockEnc.inflight) : BeCompressed(i)
  \/ BeTick
  \/ \E async \in BOOLEAN : BeFinish(async)
  \/ \E n \in 1..Len(BdWire) : \E asyncs \in SUBSET (0..(BdBlocksAhead(n) - 1)) :
        BdWrite(n, asyncs)
  \/ BdTick
  \/ BdRead
  \/ \E b \in blockDec.inflight : BdDecompressed(b)
  \/ BdFinish

SpecBlock == InitBlock /\ [][NextBlock]_vars

\* The records the decoder is to emit: the values written to the encoder.
PipeRecords == EmittedAll(blockDec.decode, blockIn)

\* C2: the BlockDecoder emits no error, at every moment the records it has
\* pushed are the first of the records written to the BlockEncoder, and when
\* it has emitted end-of-stream, once, they are all of them, whatever the
\* chunks and the completions.
BlockRoundTrip ==
  /\ blockDec.errors = <<>>
  /\ blockEnc.errors = <<>>
  /\ IsPrefix(blockDec.out, PipeRecords)
  /\ blockDec.eos > 0 =>
       /\ blockDec.out = PipeRecords
       /\ blockDec.eos = 1
       /\ ~blockDec.pushAfterEnd

\* Three values went through both streams in at least two blocks, the
\* header split between two writes and decompressions completing out of
\* order.
BlockRoundTripWitness ==
  /\ blockDec.eos = 1
  /\ Len(blockIn) = MaxRecs
  /\ Len(blockDec.dispatched) >= 2
  /\ blockDec.hdrSplit
  /\ blockDec.ooo
  /\ blockDec.out = PipeRecords

(***************************************************************************)
(* Specifications with values that the type rejects: besides valid values, *)
(* the producer writes up to MaxBad values for which type._write throws.   *)
(* rawIn and blockIn hold the valid values written.                        *)
(***************************************************************************)
NextRawReject ==
  \/ NextRaw
  \/ Len(rawEnc.errors) < MaxBad /\ ReTransform(BadValue)

SpecRawReject == InitRaw /\ [][NextRawReject]_vars

NextBlockEncReject ==
  \/ NextBlockEnc
  \/ \E async \in BOOLEAN :
       Len(blockEnc.errors) < MaxBad /\ BeWrite(BadValue, async)

SpecBlockEncReject == InitBlockEnc /\ [][NextBlockEncReject]_vars

\* The record encodings the BlockEncoder holds or has pushed: the data of
\* the blocks pushed, queued and being compressed, and the buffered bytes.
BeHeldPayload ==
  BlocksPayload(blockEnc.codec, blockEnc.out)
    \o Flatten([i \in 1..Len(blockEnc.queue.items) |->
                  Decompress(blockEnc.codec, blockEnc.queue.items[i].buf).data])
    \o Flatten([i \in 1..Len(blockEnc.inflight) |-> blockEnc.inflight[i].data])
    \o Slice(blockEnc.tap.buf, 0, blockEnc.tap.pos)

\* The RawEncoder part of C16: each rejected value gives one 'error', and
\* the bytes pushed and buffered are those of the valid values alone.
RawRejectPerValue ==
  /\ Len(rawEnc.errors) <= MaxBad
  /\ RawWire \o (IF rawEnc.flushed THEN <<>>
                 ELSE Slice(rawEnc.tap.buf, 0, rawEnc.tap.pos))
       = EncodeAll(rawIn)

\* C16: a value that the type rejects gives an 'error' and leaves no trace:
\* the bytes held and pushed by the BlockEncoder are the encodings of the
\* valid values alone, the counts pushed, queued, in flight and blockCount
\* add up to the number of valid values, and the segments pushed are the
\* first of those pushed for the valid values alone.
EncodeFailurePerValue ==
  (\A i \in 1..Len(blockEnc.errors) : blockEnc.errors[i] = "invalid value") =>
    /\ BeHeldPayload = EncodeAll(blockIn)
    /\ SumPushedCounts(blockEnc.out) + SumCounts(blockEnc.queue.items)
         + SumCounts(blockEnc.inflight) + blockEnc.blockCount = Len(blockIn)
    /\ IsPrefix(blockEnc.out, SyncOut)

(***************************************************************************)
(* Specification of the BlockDecoder with a consumer that keeps reading,   *)
(* on files without error (complete or cut short).  When _read invokes the *)
(* callback of a write, the base class may call the next _write, or emit   *)
(* 'finish', before the callback returns.                                  *)
(***************************************************************************)
CleanFiles ==
  {FileOf(MAGIC_BYTES, codec, GoodSchema, bs) :
     codec \in getDefaultCodecs,
     bs \in {b \in BlockSeqs : \A i \in 1..Len(b) : b[i].sync = SyncA}}

InitBlockDecWake ==
  /\ RawIdle
  /\ file \in CleanFiles \cup {SubSeq(f, 1, Len(f) - 1) : f \in CleanFiles}
  /\ blockIn = <<>>
  /\ blockEnc = BlockEncoderInit(1, NullCodec, FALSE, SyncA, FALSE)
  /\ \E decode \in BOOLEAN : blockDec = BlockDecoderInit(decode)

\* _read is about to pop a block whose data.cb() invokes the write callback.
BdReleasesInRead(d) ==
  /\ d.blockTap.pos >= Len(d.blockTap.buf)
  /\ QueuePop(d.queue).ok
  /\ d.nBlocks[QueuePop(d.queue).item.cb] = 1

\* What the base class can do inside the write callback: the next _write
\* with some of the bytes not written yet, or 'finish' when none is left.
BdNestedChoices ==
  UNION {{[kind |-> "write",
           chunk |-> Slice(BdWire, blockDec.offset, blockDec.offset + n),
           asyncs |-> a] : a \in SUBSET (0..(BdBlocksAhead(n) - 1))} :
         n \in 1..(Len(BdWire) - blockDec.offset)}
    \cup (IF blockDec.offset = Len(BdWire)
            THEN {[kind |-> "finish", chunk |-> <<>>, asyncs |-> {}]} ELSE {})

\* The base class calls _read; the write callback invoked by _read makes
\* the base class act at once.
BdReadNested(nest) ==
  /\ BdCanRead
  /\ ~blockDec.finished
  /\ BdReleasesInRead(blockDec)
  /\ nest \in BdNestedChoices
  /\ blockDec' = BdCollect(BlockDecoderRead(
                   [blockDec EXCEPT !.reading = TRUE, !.nested = nest]))
  /\ UNCHANGED <<rawVars, file, blockIn, blockEnc>>

\* An asynchronous decompression completes while a read is stalled; the
\* write callback invoked by the _read it calls makes the base class act at
\* once.
BdDecompressedNested(b, nest) ==
  /\ b \in blockDec.inflight
  /\ ~blockDec.finished
  /\ blockDec.needPush
  /\ nest \in BdNestedChoices
  /\ LET d   == [blockDec EXCEPT !.inflight = @ \ {b},
                   !.ooo = @ \/ \E c \in blockDec.inflight : c.index < b.index,
                   !.nested = nest]
         res == Decompress(d.decompress, b.data)
     IN /\ ~res.err
        /\ BdReleasesInRead([d EXCEPT !.queue =
                               QueuePush(@, BlockData(b.index, res.data, b.cb, 0))])
        /\ blockDec' = BdCollect(BdBlockCallback(d, b.index, res, b.cb))
  /\ UNCHANGED <<rawVars, file, blockIn, blockEnc>>

NextBlockDecWake ==
  \/ \E n \in 1..Len(BdWire) : \E asyncs \in SUBSET (0..(BdBlocksAhead(n) - 1)) :
        BdWrite(n, asyncs)
  \/ BdFinish
  \/ BdRead
  \/ \E nest \in BdNestedChoices : BdReadNested(nest)
  \/ BdTick
  \/ \E b \in blockDec.inflight : BdDecompressed(b)
  \/ \E b \in blockDec.inflight : \E nest \in BdNestedChoices :
        BdDecompressedNested(b, nest)

SpecBlockDecWake == InitBlockDecWake /\ [][NextBlockDecWake]_vars

\* The compressed data of the complete blocks of buf from offset pos on.
RECURSIVE BlocksData(_, _)
BlocksData(buf, pos) ==
  LET r == tryReadBlock([buf |-> buf, pos |-> pos])
  IN IF r.ok THEN <<r.block.data>> \o BlocksData(buf, r.tap.pos) ELSE <<>>

\* The values of every complete block of the file.
FileRecords ==
  IF Len(file) < HeaderLen THEN <<>>
  ELSE SyncRecords(blockDec.decode, file[2], BlocksData(file, HeaderLen))

\* Nothing is left to happen: the producer has no byte to write and cannot
\* end, no callback is scheduled, no decompression is outstanding, and the
\* consumer's read is not answered or end-of-stream was pushed.
BdAtRest ==
  /\ ~BdCanWrite(1)
  /\ ~BdCanFinish
  /\ ~BdCanRead
  /\ ~blockDec.tick
  /\ blockDec.inflight = {}

\* What is left to do: bytes to write, the end of the input, callbacks and
\* decompressions to run, values and end-of-stream to push, a read to call.
BdWorkLeft(d) ==
  10 * (Len(BdWire) - d.offset)
    + (IF d.finished THEN 0 ELSE 4)
    + 3 * Cardinality(d.inflight)
    + (IF d.tick THEN 1 ELSE 0)
    + 2 * (Len(FileRecords) - Len(d.out))
    + (IF d.eos = 0 THEN 2 ELSE 0)
    + (IF d.reading THEN 0 ELSE 1)

\* C20: a stalled read is woken up: in no state is needPush set while the
\* queue can give the next block or while finished is set; _read is never
\* called while it is running, also when the write callback it invokes makes
\* the base class write or finish at once; the decoder comes to rest only
\* when every value of every complete block of the file was pushed, followed
\* by end-of-stream; and it does come to rest when the consumer keeps
\* reading, since every step leaves less to do.
BlockDecoderNoLostWakeup ==
  /\ [](/\ ~blockDec.reentered
        /\ blockDec.needPush => (~QueuePop(blockDec.queue).ok /\ ~blockDec.finished)
        /\ IsPrefix(blockDec.out, FileRecords)
        /\ BdAtRest => (blockDec.eos = 1 /\ blockDec.out = FileRecords)
        /\ BdWorkLeft(blockDec) >= 0)
  /\ [][BdWorkLeft(blockDec') < BdWorkLeft(blockDec)]_vars

\* A stalled read was woken up; all values of two blocks were pushed and
\* end-of-stream after them; the decompressions completed out of order.
BlockDecoderWakeupWitness ==
  /\ blockDec.woken
  /\ blockDec.eos = 1
  /\ blockDec.ooo
  /\ Len(blockDec.dispatched) >= 2
  /\ blockDec.out = FileRecords
  /\ Len(blockDec.out) >= 3
====
